---- MODULE Spec2Model ----
(***************************************************************************)
(* State-machine model of telegram_downloader.py (TelegramDownloader).     *)
(*                                                                         *)
(* Scheduling: one asyncio event loop.  Code between two awaits runs       *)
(* atomically, so every action below is one such segment of a handler or   *)
(* of a download task.  Telethon starts one handler invocation per update  *)
(* (the client is built with the default sequential_updates = False), so   *)
(* several handler invocations can be suspended at their awaits at once.   *)
(*                                                                         *)
(* Strings are sequences of one-character strings; a longer token such as  *)
(* "https://t.me/" stands for that literal run of characters and is only   *)
(* used where no pattern can match inside it.                              *)
(***************************************************************************)
EXTENDS Integers, Sequences, FiniteSets, TLC

(* ----------------------------- bounds --------------------------------- *)
MaxEvents == 2          \* stream updates delivered in one run
MaxMsgId == 3           \* messages 1..MaxMsgId exist in the chat
MaxLen == 2             \* longest file name drawn for the clean-up of names

(* ------------------------ program constants --------------------------- *)
max_concurrent_fallback == 2    \* getint('max_concurrent_downloads', fallback=2)
AlbumWindow == 50       \* ids searched on each side of an album anchor

MsgIds == 1..MaxMsgId
ChannelId == 77         \* channel_id of the one chat of the model
ChannelUsername == <<"n", "e", "w", "s">>   \* its public username
MyId == 5               \* the account's own user id (get_me().id)

(* ------------------------- sequence helpers --------------------------- *)
RECURSIVE SeqRemoveAll(_, _)
\* str.replace(c, ''): every occurrence of c removed
SeqRemoveAll(s, c) ==
    IF s = <<>> THEN <<>>
    ELSE IF Head(s) = c THEN SeqRemoveAll(Tail(s), c)
         ELSE <<Head(s)>> \o SeqRemoveAll(Tail(s), c)

RECURSIVE SeqReplace_FirstOnly(_, _, _)
\* mutant: str.replace(c, r, 1), only the first occurrence replaced
SeqReplace_FirstOnly(s, c, r) ==
    IF s = <<>> THEN <<>>
    ELSE IF Head(s) = c THEN <<r>> \o Tail(s)
         ELSE <<Head(s)>> \o SeqReplace_FirstOnly(Tail(s), c, r)

RECURSIVE SeqReplace(_, _, _)
\* str.replace(c, r) for a single character c
SeqReplace(s, c, r) ==
    IF s = <<>> THEN <<>>
    ELSE <<IF Head(s) = c THEN r ELSE Head(s)>> \o SeqReplace(Tail(s), c, r)

SeqToSet(s) == {s[i] : i \in 1..Len(s)}

\* the elements of set S of integers in ascending order (list.sort by id)
RECURSIVE SortedSeq(_)
SortedSeq(S) ==
    IF S = {} THEN <<>>
    ELSE LET m == CHOOSE x \in S : \A y \in S : x <= y
         IN <<m>> \o SortedSeq(S \ {m})

(* --------------------------- Filter Engine ---------------------------- *)
\* invalid_chars = '<>:"/\\|?*'
invalid_chars == <<"<", ">", ":", "\"", "/", "\\", "|", "?", "*">>

RECURSIVE ReplaceEach(_, _)
\* for char in invalid_chars: filename = filename.replace(char, '_')
\* (each pass is bound to its value before the next one starts)
ReplaceEach(filename, chars) ==
    IF chars = <<>> THEN filename
    ELSE CHOOSE name \in {ReplaceEach(replaced, Tail(chars)) :
                            replaced \in {SeqReplace(filename, Head(chars), "_")}} : TRUE

_sanitize_filename(filename) == ReplaceEach(filename, invalid_chars)

\* str.lower() on the characters the model uses
LowerChar(c) ==
    CASE c = "M" -> "m" [] c = "E" -> "e" [] c = "MKV" -> "mkv" [] c = "TXT" -> "txt"
      [] OTHER -> c
Lower(s) == [i \in 1..Len(s) |-> LowerChar(s[i])]

\* name.rfind('.') as a 1-based index, 0 when there is no dot
RFindDot(name) ==
    IF \E i \in 1..Len(name) : name[i] = "."
    THEN CHOOSE i \in 1..Len(name) :
            name[i] = "." /\ \A j \in (i+1)..Len(name) : name[j] # "."
    ELSE 0

\* Path(filename).suffix: from the last dot on, '' when the dot is first or last
Suffix(name) ==
    LET i == RFindDot(name)
    IN IF 1 < i /\ i < Len(name) THEN SubSeq(name, i, Len(name)) ELSE <<>>

\* mutant: a file whose size is exactly the limit is rejected too
_should_download_AtLimit(c, filename, file_size) ==
    IF c.max_file_size > 0 /\ file_size >= c.max_file_size THEN FALSE
    ELSE IF c.file_extensions # <<>>
              /\ Lower(Suffix(filename)) \notin SeqToSet(c.file_extensions)
         THEN FALSE
         ELSE TRUE

\* _should_download under configuration c
_should_download(c, filename, file_size) ==
    IF c.max_file_size > 0 /\ file_size > c.max_file_size THEN FALSE
    ELSE IF c.file_extensions # <<>>
              /\ Lower(Suffix(filename)) \notin SeqToSet(c.file_extensions)
         THEN FALSE
         ELSE TRUE

(* -------------------------- Reaction Matcher -------------------------- *)
VS16 == "FE0F"          \* the code point U+FE0F, one character

\* emoji.replace(U+FE0F, '')
_normalize_emoji(emoji) == SeqRemoveAll(emoji, VS16)

RECURSIVE MatchLoop_AnyonesReaction(_, _)
\* mutant: the loop that does not look at chosen_order
MatchLoop_AnyonesReaction(results, normalized_target) ==
    IF results = <<>> THEN FALSE
    ELSE LET reaction == Head(results)
         IN IF reaction.has_emoticon
               /\ _normalize_emoji(reaction.emoticon) = normalized_target
            THEN TRUE
            ELSE MatchLoop_AnyonesReaction(Tail(results), normalized_target)

RECURSIVE MatchLoop(_, _)
\* the for loop of _has_my_reaction over reactions.results
MatchLoop(results, normalized_target) ==
    IF results = <<>> THEN FALSE
    ELSE LET reaction == Head(results)
         IN IF reaction.has_emoticon
               /\ _normalize_emoji(reaction.emoticon) = normalized_target
               /\ reaction.chosen_order # "None"
            THEN TRUE
            ELSE MatchLoop(Tail(results), normalized_target)

\* reactions: [present |-> is the snapshot there, results |-> its entries]
_has_my_reaction(reactions, emoji) ==
    IF ~reactions.present \/ reactions.results = <<>> THEN FALSE
    ELSE MatchLoop(reactions.results, _normalize_emoji(emoji))

(* --------------------------- Link Extractor --------------------------- *)
Digits == {"0", "1", "2", "3", "4", "5", "6", "7", "8", "9"}
DigitVal(d) ==
    CASE d = "0" -> 0 [] d = "1" -> 1 [] d = "2" -> 2 [] d = "3" -> 3
      [] d = "4" -> 4 [] d = "5" -> 5 [] d = "6" -> 6 [] d = "7" -> 7
      [] d = "8" -> 8 [] d = "9" -> 9

RECURSIVE ParseInt(_)
\* int(s) for a string of decimal digits
ParseInt(s) ==
    IF s = <<>> THEN 0
    ELSE 10 * ParseInt(SubSeq(s, 1, Len(s) - 1)) + DigitVal(s[Len(s)])

\* tokens that hold a '/' (no [^/] class matches them)
HasSlash(tok) == tok \in {"/", "://t.me/"}

\* last index j >= i-1 such that text[i..j] are all digits (greedy \d*)
DigitsEnd(text, i) ==
    CHOOSE j \in (i-1)..Len(text) :
        /\ \A k \in i..j : text[k] \in Digits
        /\ (j < Len(text) => text[j+1] \notin Digits)

\* last index j >= i-1 such that text[i..j] hold no '/' (greedy [^/]*)
NameEnd(text, i) ==
    CHOOSE j \in (i-1)..Len(text) :
        /\ \A k \in i..j : ~HasSlash(text[k])
        /\ (j < Len(text) => HasSlash(text[j+1]))

\* index after  https?://t\.me/  matched at i, 0 when it does not match there
SchemeEnd(text, i) ==
    IF i <= Len(text) /\ text[i] = "http"
    THEN LET j == IF i + 1 <= Len(text) /\ text[i+1] = "s" THEN i + 2 ELSE i + 1
         IN IF j <= Len(text) /\ text[j] = "://t.me/" THEN j + 1 ELSE 0
    ELSE 0

NoMatch == [end |-> 0, ref |-> <<>>, id |-> <<>>]

\* public_pattern = r'https?://t\.me/([^/c][^/]*)/(\d+)' tried at index i
PublicAt(text, i) ==
    LET n == SchemeEnd(text, i)
    IN IF n = 0 \/ n > Len(text) THEN NoMatch
       ELSE IF HasSlash(text[n]) \/ text[n] = "c" THEN NoMatch
       ELSE LET e == NameEnd(text, n + 1)
                d == DigitsEnd(text, e + 2)
            IN IF e + 1 <= Len(text) /\ text[e+1] = "/" /\ d >= e + 2
               THEN [end |-> d, ref |-> SubSeq(text, n, e), id |-> SubSeq(text, e + 2, d)]
               ELSE NoMatch

\* private_pattern = r'https?://t\.me/c/(\d+)/(\d+)' tried at index i
PrivateAt(text, i) ==
    LET n == SchemeEnd(text, i)
    IN IF n = 0 \/ n + 1 > Len(text) THEN NoMatch
       ELSE IF text[n] # "c" \/ text[n+1] # "/" THEN NoMatch
       ELSE LET e == DigitsEnd(text, n + 2)
                d == DigitsEnd(text, e + 2)
            IN IF e >= n + 2 /\ e + 1 <= Len(text) /\ text[e+1] = "/" /\ d >= e + 2
               THEN [end |-> d, ref |-> SubSeq(text, n + 2, e), id |-> SubSeq(text, e + 2, d)]
               ELSE NoMatch

\* the pattern of the given form tried at index i
MatchAt(form, text, i) ==
    IF form = "public" THEN PublicAt(text, i) ELSE PrivateAt(text, i)

RECURSIVE FindAll(_, _, _)
\* re.findall: leftmost matches, scanning on after each one
FindAll(form, text, i) ==
    IF i > Len(text) THEN <<>>
    ELSE LET m == MatchAt(form, text, i)
         IN IF m.end = 0 THEN FindAll(form, text, i + 1)
            ELSE <<[ref |-> m.ref, id |-> m.id]>> \o FindAll(form, text, m.end + 1)

public_matches(text) == FindAll("public", text, 1)
private_matches(text) == FindAll("private", text, 1)

(* ------------------------------- state -------------------------------- *)
VARIABLES
    cfg,                  \* the configuration __init__ reads
    messages,             \* the chat's messages: id -> message
    disk,                 \* files in download_path: filename -> size
    downloaded_messages,  \* self.downloaded_messages
    download_semaphore,   \* self.download_semaphore: [value, waiters]
    active_downloads,     \* self.active_downloads
    tasks,                \* download_media tasks, in creation order
    handlers              \* handler invocations, in delivery order

vars == <<cfg, messages, disk, downloaded_messages, download_semaphore,
          active_downloads, tasks, handlers>>

(* ------------------------------ the disk ------------------------------ *)
Exists(d, path) == path \in DOMAIN d
Put(d, path, size) ==
    [q \in DOMAIN d \cup {path} |-> IF q = path THEN size ELSE d[q]]
\* mutant: unlink() that leaves the file where it is
Unlink_KeepsFile(d, path) == d

Unlink(d, path) == [q \in DOMAIN d \ {path} |-> d[q]]
NoFiles == [q \in {} |-> 0]

(* ----------------------- asyncio.Semaphore ---------------------------- *)
\* locked(): no permit left, or somebody is queued
Locked(sem) == sem.value = 0 \/ sem.waiters # <<>>

\* _wake_up_next(): hand one permit to the first waiter not yet woken
WakeUpNext(sem) ==
    IF \E i \in 1..Len(sem.waiters) : ~sem.waiters[i].woken
    THEN LET i == CHOOSE k \in 1..Len(sem.waiters) :
                     /\ ~sem.waiters[k].woken
                     /\ \A j \in 1..(k-1) : sem.waiters[j].woken
         IN [value |-> sem.value - 1,
             waiters |-> [sem.waiters EXCEPT ![i].woken = TRUE]]
    ELSE sem

\* mutant: release() that wakes no waiter
Release_NoWakeUp(sem) == [sem EXCEPT !.value = @ + 1]

\* release(): one more permit, then wake the next waiter
Release(sem) == WakeUpNext([sem EXCEPT !.value = @ + 1])

\* mutant: acquire() that takes no permit
TakePermit_NoDecrement(sem) == sem

\* acquire() when not locked
TakePermit(sem) == [sem EXCEPT !.value = @ - 1]

\* acquire() when locked: queue a future
Enqueue(sem, t) ==
    [sem EXCEPT !.waiters = Append(@, [task |-> t, woken |-> FALSE])]

RECURSIVE DropWaiter(_, _)
DropWaiter(ws, t) ==
    IF ws = <<>> THEN <<>>
    ELSE IF Head(ws).task = t THEN Tail(ws)
         ELSE <<Head(ws)>> \o DropWaiter(Tail(ws), t)

\* the rest of acquire() once the future is done
AfterWake(sem, t) ==
    LET s1 == [sem EXCEPT !.waiters = DropWaiter(@, t)]
    IN IF s1.value > 0 THEN WakeUpNext(s1) ELSE s1

Woken(sem, t) ==
    \E i \in 1..Len(sem.waiters) :
        sem.waiters[i].task = t /\ sem.waiters[i].woken

(* --------------------------- Media Resolver --------------------------- *)
Timestamps == {"T1", "T2"}     \* values of datetime.now() at second granularity

\* file information of a message's media: lines 299-325
MediaInfo(m, ts) ==
    CASE m.media = "document" ->
           [ok |-> TRUE,
            filename |-> IF m.file_name # <<>> THEN m.file_name
                         ELSE <<"telegram_file_", ts, ".">> \o m.mime_ext,
            file_size |-> m.size]
      [] m.media = "photo" ->
           [ok |-> TRUE,
            filename |-> <<"telegram_photo_", ts, ".", "jpg">>,
            file_size |-> 0]
      [] OTHER -> [ok |-> FALSE, filename |-> <<>>, file_size |-> 0]

VideoSuffixes ==
    {<<".", "mkv">>, <<".", "mp4">>, <<".", "avi">>, <<".", "mov">>,
     <<".", "wmv">>, <<".", "flv">>, <<".", "webm">>, <<".", "m4v">>}

NotificationsOn == cfg.notification_chat # <<>>
SonarrOn == cfg.sonarr_enabled /\ cfg.sonarr_url # <<>> /\ cfg.sonarr_api_key # <<>>

(* --------------------------- download tasks --------------------------- *)
\* asyncio.create_task(self.download_media(msg, chat_title)) by handler h
NewTask(msg_id, h) ==
    [msg |-> msg_id, by |-> h, pc |-> "created", result |-> "pending",
     path |-> <<>>, file_size |-> 0, calls |-> 0, deleted |-> FALSE,
     sent |-> {}, imported |-> FALSE, hook |-> "none"]

TaskIds == 1..Len(tasks)
HoldsSlot(t) ==
    tasks[t].pc \in {"notify_start", "transfer", "notify_failed", "notify_ok", "sonarr"}
InFlight(t) == tasks[t].pc = "transfer"

\* the task ends: _do_download returned res; finally: the gauge goes down and
\* __aexit__ releases the permit
Returned(rec, res) == [rec EXCEPT !.pc = "done", !.result = res]

\* after the success notification: the post-import hook, or return True
AfterDownloaded(rec) ==
    IF cfg.sonarr_enabled /\ Lower(Suffix(rec.path)) \in VideoSuffixes /\ SonarrOn
    THEN [rec EXCEPT !.pc = "sonarr", !.imported = TRUE]
    ELSE Returned(rec, "true")

\* mutant: the size on disk is not compared with the expected size
AfterTransfer_NoVerification(rec, d) ==
    IF NotificationsOn
    THEN [rec EXCEPT !.pc = "notify_ok", !.sent = @ \cup {"downloaded"}]
    ELSE AfterDownloaded(rec)

\* lines 356-367 once download_media has returned, the disk being d
AfterTransfer(rec, d) ==
    IF Exists(d, rec.path) /\ rec.file_size > 0 /\ d[rec.path] # rec.file_size
    THEN IF NotificationsOn
         THEN [rec EXCEPT !.pc = "notify_failed", !.sent = @ \cup {"failed"}]
         ELSE Returned(rec, "false")
    ELSE IF NotificationsOn
         THEN [rec EXCEPT !.pc = "notify_ok", !.sent = @ \cup {"downloaded"}]
         ELSE AfterDownloaded(rec)

\* lines 347-354: the start notification, then the transfer call
StartTransfer(rec) == [rec EXCEPT !.pc = "transfer", !.calls = @ + 1]
BeforeTransfer(rec) ==
    IF NotificationsOn
    THEN [rec EXCEPT !.pc = "notify_start", !.sent = @ \cup {"downloading"}]
    ELSE StartTransfer(rec)

\* mutant: a file counts as complete only when its size is the expected one
AlreadyComplete_KnownSizeOnly(d, path, file_size) ==
    Exists(d, path) /\ d[path] = file_size

\* lines 334-345: the destination exists; complete means nothing is left to do
AlreadyComplete(d, path, file_size) ==
    Exists(d, path) /\ (file_size = 0 \/ d[path] = file_size)

\* _do_download from its first line to its first await (lines 297-352), run by
\* task record rec on disk d at time ts: the record and the disk afterwards
\* (the sanitized name is computed once, as line 329 does)
DoDownloadHead(rec, d, ts) ==
    LET info == MediaInfo(messages[rec.msg], ts)
        FromPath(filename) ==
            LET r1 == [rec EXCEPT !.path = filename, !.file_size = info.file_size]
            IN IF ~info.ok THEN [task |-> Returned(rec, "false"), disk |-> d]
               ELSE IF ~_should_download(cfg, filename, info.file_size)
                    THEN [task |-> Returned(r1, "false"), disk |-> d]
               ELSE IF AlreadyComplete(d, filename, info.file_size)
                    THEN [task |-> Returned(r1, "true"), disk |-> d]
               ELSE IF Exists(d, filename)
                    THEN [task |-> BeforeTransfer([r1 EXCEPT !.deleted = TRUE]),
                          disk |-> Unlink(d, filename)]
               ELSE [task |-> BeforeTransfer(r1), disk |-> d]
    IN CHOOSE h \in {FromPath(filename) : filename \in {_sanitize_filename(info.filename)}} : TRUE

\* the body of  async with self.download_semaphore  entered by task t, the
\* semaphore being sem after the acquire: gauge up, _do_download to its first
\* await; when it returned at once, gauge down and the permit released
EnterBody(t, sem, ts) ==
    \E h \in {DoDownloadHead(tasks[t], disk, ts)} :
       /\ tasks' = [tasks EXCEPT ![t] = h.task]
       /\ disk' = h.disk
       /\ IF h.task.pc = "done"
          THEN /\ active_downloads' = (active_downloads + 1) - 1
               /\ download_semaphore' = Release(sem)
          ELSE /\ active_downloads' = active_downloads + 1
               /\ download_semaphore' = sem

\* mutant: the slot is given back only when _do_download returned True
Continue_LeakOnFailure(t, rec, d) ==
    /\ tasks' = [tasks EXCEPT ![t] = rec]
    /\ disk' = d
    /\ IF rec.pc = "done" /\ rec.result = "true"
       THEN /\ active_downloads' = active_downloads - 1
            /\ download_semaphore' = Release(download_semaphore)
       ELSE UNCHANGED <<active_downloads, download_semaphore>>

\* a later segment of the body leaves task t as rec and the disk as d
Continue(t, rec, d) ==
    /\ tasks' = [tasks EXCEPT ![t] = rec]
    /\ disk' = d
    /\ IF rec.pc = "done"
       THEN /\ active_downloads' = active_downloads - 1
            /\ download_semaphore' = Release(download_semaphore)
       ELSE UNCHANGED <<active_downloads, download_semaphore>>

\* the event loop runs a new task's first step in creation order (call_soon)
\* download_media: no media -> False; else _download_single_media: acquire
TaskStart(t) ==
    /\ t \in TaskIds
    /\ tasks[t].pc = "created"
    /\ \A u \in 1..(t-1) : tasks[u].pc # "created"
    /\ IF messages[tasks[t].msg].media = "none"
       THEN /\ tasks' = [tasks EXCEPT ![t] = Returned(@, "false")]
            /\ UNCHANGED <<disk, active_downloads, download_semaphore>>
       ELSE IF Locked(download_semaphore)
       THEN /\ tasks' = [tasks EXCEPT ![t].pc = "acquire"]
            /\ download_semaphore' = Enqueue(download_semaphore, t)
            /\ UNCHANGED <<disk, active_downloads>>
       ELSE \E ts \in Timestamps : EnterBody(t, TakePermit(download_semaphore), ts)
    /\ UNCHANGED <<cfg, messages, downloaded_messages, handlers>>

\* a queued task whose future release() completed resumes inside acquire()
TaskResume(t) ==
    /\ t \in TaskIds
    /\ tasks[t].pc = "acquire"
    /\ Woken(download_semaphore, t)
    /\ \E ts \in Timestamps : EnterBody(t, AfterWake(download_semaphore, t), ts)
    /\ UNCHANGED <<cfg, messages, downloaded_messages, handlers>>

\* send_notification("Downloading ...") is over (sent or failed, both swallowed):
\* message.download_media is called
NotifyStartReturns(t) ==
    /\ t \in TaskIds
    /\ tasks[t].pc = "notify_start"
    /\ Continue(t, StartTransfer(tasks[t]), disk)
    /\ UNCHANGED <<cfg, messages, downloaded_messages, handlers>>

PartialSize == 1    \* size of a file the transfer left incomplete
PhotoSize == 1      \* size of a downloaded photo

\* what message.download_media can leave at path: the disk after a return
TransferWrites(rec, d) ==
    {Put(d, rec.path, IF rec.file_size > 0 THEN rec.file_size ELSE PhotoSize),
     Put(d, rec.path, PartialSize),
     d}

\* message.download_media returns
TransferReturns(t) ==
    /\ t \in TaskIds
    /\ tasks[t].pc = "transfer"
    /\ \E d \in TransferWrites(tasks[t], disk) :
          Continue(t, AfterTransfer(tasks[t], d), d)
    /\ UNCHANGED <<cfg, messages, downloaded_messages, handlers>>

\* mutant: the exception of the transfer call is swallowed as a success
TransferRaises_ReturnsTrue(t) ==
    /\ t \in TaskIds
    /\ tasks[t].pc = "transfer"
    /\ \E d \in {disk, Put(disk, tasks[t].path, PartialSize)} :
          Continue(t, Returned(tasks[t], "true"), d)
    /\ UNCHANGED <<cfg, messages, downloaded_messages, handlers>>

\* message.download_media raises: except Exception -> return False
TransferRaises(t) ==
    /\ t \in TaskIds
    /\ tasks[t].pc = "transfer"
    /\ \E d \in {disk, Put(disk, tasks[t].path, PartialSize)} :
          Continue(t, Returned(tasks[t], "false"), d)
    /\ UNCHANGED <<cfg, messages, downloaded_messages, handlers>>

\* send_notification("Download failed ...") is over: return False
NotifyFailedReturns(t) ==
    /\ t \in TaskIds
    /\ tasks[t].pc = "notify_failed"
    /\ Continue(t, Returned(tasks[t], "false"), disk)
    /\ UNCHANGED <<cfg, messages, downloaded_messages, handlers>>

\* send_notification("Downloaded ...") is over
NotifyOkReturns(t) ==
    /\ t \in TaskIds
    /\ tasks[t].pc = "notify_ok"
    /\ Continue(t, AfterDownloaded(tasks[t]), disk)
    /\ UNCHANGED <<cfg, messages, downloaded_messages, handlers>>

\* what import_to_sonarr can meet: status 201, another status, an exception
\* of the HTTP call; it returns True or False and never raises
HookOutcomes == {"201", "status", "error"}

\* import_to_sonarr is over, its result is not looked at: return True
SonarrReturns(t) ==
    /\ t \in TaskIds
    /\ tasks[t].pc = "sonarr"
    /\ \E outcome \in HookOutcomes :
          Continue(t, Returned([tasks[t] EXCEPT !.hook = outcome], "true"), disk)
    /\ UNCHANGED <<cfg, messages, downloaded_messages, handlers>>

(* ------------------------- Chat Scope Filter -------------------------- *)
DigitChar(n) == CHOOSE d \in Digits : DigitVal(d) = n

RECURSIVE NatToStr(_)
NatToStr(n) ==
    IF n < 10 THEN <<DigitChar(n)>> ELSE NatToStr(n \div 10) \o <<DigitChar(n % 10)>>

\* str(n) for an integer
IntToStr(n) == IF n < 0 THEN <<"-">> \o NatToStr(-n) ELSE NatToStr(n)

RECURSIVE LStripMinus(_)
\* s.lstrip('-')
LStripMinus(s) ==
    IF s # <<>> /\ Head(s) = "-" THEN LStripMinus(Tail(s)) ELSE s

IsDigit(s) == s # <<>> /\ \A i \in 1..Len(s) : s[i] \in Digits

\* mutant: a numeric entry matches whatever the chat is
EntryMatches_AnyNumber(monitored, chat_id, chat_username) ==
    IF monitored # <<>> /\ Head(monitored) = "@" /\ chat_username # <<>>
    THEN Tail(monitored) = chat_username
    ELSE IsDigit(LStripMinus(monitored))

\* one pass of the loop over self.monitored_chats: does entry `monitored` match
EntryMatches(monitored, chat_id, chat_username) ==
    IF monitored # <<>> /\ Head(monitored) = "@" /\ chat_username # <<>>
    THEN Tail(monitored) = chat_username
    ELSE IF IsDigit(LStripMinus(monitored))
         THEN \/ IntToStr(chat_id) = monitored
              \/ IntToStr(chat_id) = LStripMinus(monitored)
         ELSE FALSE

\* lines 497-516: should this chat be monitored
should_monitor(monitored_chats, chat_id, chat_username) ==
    IF monitored_chats = <<>> THEN TRUE
    ELSE \E i \in 1..Len(monitored_chats) :
            EntryMatches(monitored_chats[i], chat_id, chat_username)

(* ------------------------- handler invocations ------------------------ *)
NoReactions == [present |-> FALSE, results |-> <<>>]
NoLink == [form |-> "none", ref |-> <<>>, id |-> <<>>]
NoChat == [chat_id |-> 0, is_private |-> FALSE, username |-> <<>>]

NewHandler(kind) ==
    [kind |-> kind, pc |-> "done", msg_id |-> 0, reactions |-> NoReactions,
     matched |-> FALSE, chat |-> NoChat, text |-> <<>>, queue |-> <<>>,
     cur |-> NoLink,
     target |-> 0, resolved |-> <<>>, fetches |-> <<>>, spawned |-> <<>>,
     sent |-> <<>>, failed |-> FALSE]

HandlerIds == 1..Len(handlers)

\* message_key = f"{event.peer.channel_id}_{msg_id}"
MessageKey(channel_id, msg_id) == <<channel_id, msg_id>>

\* iter_messages(chat, min_id=, max_id=): the client leaves out both bounds
IterMessages(min_id, max_id) ==
    {id \in DOMAIN messages : min_id < id /\ id < max_id}

Max(a, b) == IF a >= b THEN a ELSE b

\* lines 543-552 (and 204-212): the album members found around msg_id, sorted
GroupedMessages(msg_id) ==
    LET min_id == Max(1, msg_id - AlbumWindow)
        max_id == msg_id + AlbumWindow
    IN SortedSeq({id \in IterMessages(min_id, max_id) :
                     messages[id].grouped_id = messages[msg_id].grouped_id})

RECURSIVE AlbumLoop_NoClaim(_, _, _, _)
\* mutant: the loop creates the tasks without adding their keys to the set
AlbumLoop_NoClaim(grouped, h, ledger, ts) ==
    IF grouped = <<>> THEN [ledger |-> ledger, tasks |-> ts]
    ELSE LET msg_key == MessageKey(ChannelId, Head(grouped))
         IN IF msg_key \in ledger
            THEN AlbumLoop_NoClaim(Tail(grouped), h, ledger, ts)
            ELSE AlbumLoop_NoClaim(Tail(grouped), h, ledger,
                                   Append(ts, NewTask(Head(grouped), h)))

RECURSIVE AlbumLoop(_, _, _, _)
\* lines 557-571: for msg in grouped_messages: skip a key already in the set,
\* else add it and create the task.  Gives the set and the tasks afterwards.
AlbumLoop(grouped, h, ledger, ts) ==
    IF grouped = <<>> THEN [ledger |-> ledger, tasks |-> ts]
    ELSE LET msg_key == MessageKey(ChannelId, Head(grouped))
         IN IF msg_key \in ledger
            THEN AlbumLoop(Tail(grouped), h, ledger, ts)
            ELSE AlbumLoop(Tail(grouped), h, ledger \cup {msg_key},
                           Append(ts, NewTask(Head(grouped), h)))

RECURSIVE SpawnAll(_, _, _)
\* lines 216-217: for msg in grouped_messages: create_task(...)
SpawnAll(grouped, h, ts) ==
    IF grouped = <<>> THEN ts
    ELSE SpawnAll(Tail(grouped), h, Append(ts, NewTask(Head(grouped), h)))

TaskRange(before, after) == [i \in 1..(Len(after) - Len(before)) |-> Len(before) + i]

(* -------------------------- reaction_handler -------------------------- *)
\* an UpdateMessageReactions arrives: lines 476-494, up to await get_entity
ReactionUpdate(msg_id, reactions) ==
    /\ Len(handlers) < MaxEvents
    /\ LET matched == _has_my_reaction(reactions, cfg.reaction_emoji)
       IN handlers' = Append(handlers,
              [NewHandler("reaction") EXCEPT
                  !.msg_id = msg_id, !.reactions = reactions, !.matched = matched,
                  !.pc = IF matched THEN "get_entity" ELSE "done"])
    /\ UNCHANGED <<cfg, messages, disk, downloaded_messages, download_semaphore,
                   active_downloads, tasks>>

\* mutant: the handler does not look the key up in downloaded_messages
GetEntityReturns_NoLedgerCheck(h) ==
    /\ h \in HandlerIds
    /\ handlers[h].pc = "get_entity"
    /\ handlers' = [handlers EXCEPT ![h] =
          IF ~should_monitor(cfg.monitored_chats, ChannelId, ChannelUsername)
          THEN [@ EXCEPT !.pc = "done"]
          ELSE [@ EXCEPT !.pc = "get_messages",
                         !.fetches = Append(@, [ref |-> ChannelUsername,
                                                id |-> handlers[h].msg_id])]]
    /\ UNCHANGED <<cfg, messages, disk, downloaded_messages, download_semaphore,
                   active_downloads, tasks>>

\* get_entity(event.peer) returns: lines 495-529, up to await get_messages
GetEntityReturns(h) ==
    /\ h \in HandlerIds
    /\ handlers[h].pc = "get_entity"
    /\ handlers' = [handlers EXCEPT ![h] =
          IF ~should_monitor(cfg.monitored_chats, ChannelId, ChannelUsername)
          THEN [@ EXCEPT !.pc = "done"]
          ELSE IF MessageKey(ChannelId, handlers[h].msg_id) \in downloaded_messages
               THEN [@ EXCEPT !.pc = "done"]
               ELSE [@ EXCEPT !.pc = "get_messages",
                              !.fetches = Append(@, [ref |-> ChannelUsername,
                                                     id |-> handlers[h].msg_id])]]
    /\ UNCHANGED <<cfg, messages, disk, downloaded_messages, download_semaphore,
                   active_downloads, tasks>>

\* mutant: the handler awaits the task it has created for a single message
GetMessagesReturns_AwaitsTask(h) ==
    /\ h \in HandlerIds
    /\ \/ /\ handlers[h].pc = "get_messages"
          /\ \E found \in {TRUE, FALSE} :
               LET msg_id == handlers[h].msg_id
               IN IF ~found \/ msg_id \notin DOMAIN messages
                  THEN /\ handlers' = [handlers EXCEPT ![h].pc = "done"]
                       /\ UNCHANGED <<downloaded_messages, tasks>>
                  ELSE IF messages[msg_id].grouped_id # 0
                  THEN /\ handlers' = [handlers EXCEPT ![h].pc = "iter_messages"]
                       /\ UNCHANGED <<downloaded_messages, tasks>>
                  ELSE /\ downloaded_messages' =
                              downloaded_messages \cup {MessageKey(ChannelId, msg_id)}
                       /\ tasks' = Append(tasks, NewTask(msg_id, h))
                       /\ handlers' = [handlers EXCEPT ![h].pc = "await_task",
                                          ![h].spawned = <<Len(tasks) + 1>>]
       \/ /\ handlers[h].pc = "await_task"
          /\ tasks[handlers[h].spawned[1]].pc = "done"
          /\ handlers' = [handlers EXCEPT ![h].pc = "done"]
          /\ UNCHANGED <<downloaded_messages, tasks>>
    /\ UNCHANGED <<cfg, messages, disk, download_semaphore, active_downloads>>

\* get_messages(chat, ids=event.msg_id) returns the message or nothing:
\* lines 530-547 and, for a single message, 578-582
GetMessagesReturns(h) ==
    /\ h \in HandlerIds
    /\ handlers[h].pc = "get_messages"
    /\ \E found \in {TRUE, FALSE} :
         LET msg_id == handlers[h].msg_id
         IN IF ~found \/ msg_id \notin DOMAIN messages
            THEN /\ handlers' = [handlers EXCEPT ![h].pc = "done"]
                 /\ UNCHANGED <<downloaded_messages, tasks>>
            ELSE IF messages[msg_id].grouped_id # 0
            THEN /\ handlers' = [handlers EXCEPT ![h].pc = "iter_messages"]
                 /\ UNCHANGED <<downloaded_messages, tasks>>
            ELSE /\ downloaded_messages' =
                        downloaded_messages \cup {MessageKey(ChannelId, msg_id)}
                 /\ tasks' = Append(tasks, NewTask(msg_id, h))
                 /\ handlers' = [handlers EXCEPT ![h].pc = "done",
                                    ![h].spawned = <<Len(tasks) + 1>>]
    /\ UNCHANGED <<cfg, messages, disk, download_semaphore, active_downloads>>

\* iter_messages is exhausted: lines 551-573
IterMessagesReturns(h) ==
    /\ h \in HandlerIds
    /\ handlers[h].pc = "iter_messages"
    /\ LET r == AlbumLoop(GroupedMessages(handlers[h].msg_id), h,
                          downloaded_messages, tasks)
       IN /\ downloaded_messages' = r.ledger
          /\ tasks' = r.tasks
          /\ handlers' = [handlers EXCEPT ![h].pc = "done",
                             ![h].spawned = TaskRange(tasks, r.tasks)]
    /\ UNCHANGED <<cfg, messages, disk, download_semaphore, active_downloads>>

\* mutant: the key is claimed before the fetch, and kept when a call raises
ReactionHandlerRaises_KeepsClaim(h) ==
    /\ h \in HandlerIds
    /\ handlers[h].pc \in {"get_entity", "get_messages", "iter_messages"}
    /\ handlers' = [handlers EXCEPT ![h].pc = "done", ![h].failed = TRUE]
    /\ downloaded_messages' =
          downloaded_messages \cup {MessageKey(ChannelId, handlers[h].msg_id)}
    /\ UNCHANGED <<cfg, messages, disk, download_semaphore, active_downloads, tasks>>

\* an awaited client call raises: except Exception at line 584
ReactionHandlerRaises(h) ==
    /\ h \in HandlerIds
    /\ handlers[h].pc \in {"get_entity", "get_messages", "iter_messages"}
    /\ handlers' = [handlers EXCEPT ![h].pc = "done", ![h].failed = TRUE]
    /\ UNCHANGED <<cfg, messages, disk, downloaded_messages, download_semaphore,
                   active_downloads, tasks>>

(* ---------------------------- link_handler ---------------------------- *)
\* the chat a NewMessage event comes from
SavedMessages == [chat_id |-> MyId, is_private |-> TRUE, username |-> <<>>]
TheChannel == [chat_id |-> ChannelId, is_private |-> FALSE, username |-> ChannelUsername]

\* lines 404-408
is_link_chat(chat) ==
    IF Lower(cfg.link_chat) = <<"m", "e">> /\ chat.is_private /\ chat.chat_id = MyId
    THEN TRUE
    ELSE \/ IntToStr(chat.chat_id) = cfg.link_chat
         \/ <<"@">> \o chat.username = cfg.link_chat

\* line 454: full_channel_id = -100 + int(channel_id)   (the pattern's \d+
\* never starts with '-')
full_channel_id(channel_id) == -100 + ParseInt(channel_id)

\* the argument of get_entity for a link
EntityArg(link) ==
    IF link.form = "public" THEN link.ref ELSE full_channel_id(link.ref)

\* the id a private channel is known by: "-100" written before its digits
MarkedId(channel_id) == -ParseInt(<<"1", "0", "0">> \o NatToStr(channel_id))

\* get_entity finds the model's channel under its username or its marked id
EntityResolves(link) ==
    IF link.form = "public" THEN link.ref = ChannelUsername
    ELSE full_channel_id(link.ref) = MarkedId(ChannelId)

\* the for loops at lines 433 and 451 take the next match, or the handler ends
LinkNext(rec) ==
    IF rec.queue = <<>> THEN [rec EXCEPT !.pc = "done", !.cur = NoLink]
    ELSE [rec EXCEPT !.pc = "l_get_entity", !.cur = Head(rec.queue),
                     !.queue = Tail(rec.queue),
                     !.resolved = Append(@, [form |-> Head(rec.queue).form,
                                             arg |-> EntityArg(Head(rec.queue))])]

\* await self.send_notification(text) inside the link handler, then the next match
LinkNotify(rec, what) ==
    IF NotificationsOn
    THEN [rec EXCEPT !.pc = "l_notify", !.sent = Append(@, <<what, rec.cur>>)]
    ELSE LinkNext(rec)

Tagged(form, ms) == [i \in 1..Len(ms) |-> [form |-> form, ref |-> ms[i].ref, id |-> ms[i].id]]

HandlerOnly == <<cfg, messages, disk, downloaded_messages, download_semaphore,
                 active_downloads, tasks>>

\* a NewMessage event arrives: lines 395-400, up to await event.get_chat()
NewMessage(chat, text) ==
    /\ Len(handlers) < MaxEvents
    /\ handlers' = Append(handlers,
          [NewHandler("link") EXCEPT
              !.text = text, !.chat = chat,
              !.pc = IF ~cfg.link_download_enabled \/ cfg.link_chat = <<>>
                     THEN "done" ELSE "get_chat"])
    /\ UNCHANGED HandlerOnly

\* event.get_chat() returns: lines 401-436, up to the first get_entity
GetChatReturns(h) ==
    /\ h \in HandlerIds
    /\ handlers[h].pc = "get_chat"
    /\ LET rec == handlers[h]
           pub == public_matches(rec.text)
           priv == private_matches(rec.text)
       IN handlers' = [handlers EXCEPT ![h] =
             IF ~is_link_chat(rec.chat) THEN [rec EXCEPT !.pc = "done"]
             ELSE IF rec.text = <<>> THEN [rec EXCEPT !.pc = "done"]
             ELSE IF pub = <<>> /\ priv = <<>> THEN [rec EXCEPT !.pc = "done"]
             ELSE LinkNext([rec EXCEPT
                     !.queue = Tagged("public", pub) \o Tagged("private", priv)])]
    /\ UNCHANGED HandlerOnly

\* event.get_chat() raises: except Exception at line 470
GetChatRaises(h) ==
    /\ h \in HandlerIds
    /\ handlers[h].pc = "get_chat"
    /\ handlers' = [handlers EXCEPT ![h].pc = "done", ![h].failed = TRUE]
    /\ UNCHANGED HandlerOnly

\* get_entity(link target) returns: get_messages(target_channel, ids=int(msg_id))
LinkEntityReturns(h) ==
    /\ h \in HandlerIds
    /\ handlers[h].pc = "l_get_entity"
    /\ EntityResolves(handlers[h].cur)
    /\ handlers' = [handlers EXCEPT ![h].pc = "l_get_messages",
          ![h].fetches = Append(@, [ref |-> handlers[h].cur.ref,
                                    id |-> ParseInt(handlers[h].cur.id)])]
    /\ UNCHANGED HandlerOnly

\* get_messages returns for a link: lines 439-444, _process_link_message
LinkMessagesReturns(h) ==
    /\ h \in HandlerIds
    /\ handlers[h].pc = "l_get_messages"
    /\ \E found \in {TRUE, FALSE} :
         LET rec == handlers[h]
             msg_id == ParseInt(rec.cur.id)
         IN IF ~found \/ msg_id \notin DOMAIN messages
            THEN /\ handlers' = [handlers EXCEPT ![h] = LinkNext(rec)]
                 /\ UNCHANGED tasks
            ELSE IF messages[msg_id].grouped_id # 0
            THEN /\ handlers' = [handlers EXCEPT ![h].pc = "l_iter_messages",
                                                 ![h].target = msg_id]
                 /\ UNCHANGED tasks
            ELSE /\ tasks' = Append(tasks, NewTask(msg_id, h))
                 /\ handlers' = [handlers EXCEPT ![h] =
                       LinkNotify([rec EXCEPT !.spawned = Append(@, Len(tasks) + 1)],
                                  "started")]
    /\ UNCHANGED <<cfg, messages, disk, downloaded_messages, download_semaphore,
                   active_downloads>>

\* iter_messages is exhausted for a link: lines 212-222
LinkIterReturns(h) ==
    /\ h \in HandlerIds
    /\ handlers[h].pc = "l_iter_messages"
    /\ LET rec == handlers[h]
           ts == SpawnAll(GroupedMessages(rec.target), h, tasks)
       IN /\ tasks' = ts
          /\ handlers' = [handlers EXCEPT ![h] =
                LinkNotify([rec EXCEPT !.spawned = @ \o TaskRange(tasks, ts)],
                           "started")]
    /\ UNCHANGED <<cfg, messages, disk, downloaded_messages, download_semaphore,
                   active_downloads>>

\* a client call made for one link raises: except Exception at 446 / 466
LinkCallRaises(h) ==
    /\ h \in HandlerIds
    /\ handlers[h].pc \in {"l_get_entity", "l_get_messages", "l_iter_messages"}
    /\ handlers' = [handlers EXCEPT ![h] = LinkNotify(handlers[h], "failed")]
    /\ UNCHANGED HandlerOnly

\* send_notification is over in the link handler (sent, or failed and swallowed)
LinkNotifyReturns(h) ==
    /\ h \in HandlerIds
    /\ handlers[h].pc = "l_notify"
    /\ handlers' = [handlers EXCEPT ![h] = LinkNext(handlers[h])]
    /\ UNCHANGED HandlerOnly

(* ------------------------ configuration and world --------------------- *)
Heart == "2764"         \* the code point U+2764, one character
Thumb == "1F44D"

\* the fallbacks of __init__, link downloads from Saved Messages switched on
BaseCfg ==
    [max_concurrent |-> max_concurrent_fallback,
     reaction_emoji |-> <<Heart, VS16>>, monitored_chats |-> <<>>,
     file_extensions |-> <<>>, max_file_size |-> 0,
     notification_chat |-> <<>>, sonarr_enabled |-> FALSE,
     sonarr_url |-> <<"u">>, sonarr_api_key |-> <<"k">>,
     link_download_enabled |-> TRUE, link_chat |-> <<"m", "e">>]

Me == <<"m", "e">>

Doc(name, size, g) ==
    [media |-> "document", file_name |-> name, mime_ext |-> <<"mp4">>,
     size |-> size, grouped_id |-> g]
Photo(g) ==
    [media |-> "photo", file_name |-> <<>>, mime_ext |-> <<>>, size |-> 0,
     grouped_id |-> g]
Other(kind) ==
    [media |-> kind, file_name |-> <<>>, mime_ext |-> <<>>, size |-> 0,
     grouped_id |-> 0]

DocSize == 2
AMkv == <<"a", ".", "mkv">>

\* single messages: two documents with the same file name, a photo, plain text
SinglesWorld ==
    [id \in MsgIds |->
        CASE id % 4 = 1 -> Doc(AMkv, DocSize, 0)
          [] id % 4 = 2 -> Photo(0)
          [] id % 4 = 3 -> Doc(AMkv, DocSize, 0)
          [] OTHER -> Other("none")]

\* one album of documents, each with its own file name
AlbumWorld ==
    [id \in MsgIds |-> Doc(<<"f", DigitChar(id % 10), ".", "mkv">>, DocSize, 9)]

\* an unsupported payload, a text message, names that need cleaning up
OddWorld ==
    [id \in MsgIds |->
        CASE id % 4 = 1 -> Other("other")
          [] id % 4 = 2 -> Other("none")
          [] id % 4 = 3 -> Doc(<<"x", ":", "y", ".", "MKV">>, DocSize, 0)
          [] OTHER -> Doc(<<>>, DocSize, 0)]

Worlds == {SinglesWorld, AlbumWorld, OddWorld}

\* what an earlier run may have left in download_path
Disks == {NoFiles, Put(NoFiles, AMkv, PartialSize), Put(NoFiles, AMkv, DocSize)}

\* notifications to Saved Messages and the Sonarr import switched on
FullCfg == [BaseCfg EXCEPT !.notification_chat = Me, !.sonarr_enabled = TRUE]

Entry(emoticon, chosen_order) ==
    [has_emoticon |-> TRUE, emoticon |-> emoticon, chosen_order |-> chosen_order]
Snapshot(results) == [present |-> TRUE, results |-> results]

MyHeart == Snapshot(<<Entry(<<Heart>>, "0")>>)
OthersHeart == Snapshot(<<Entry(<<Heart, VS16>>, "None")>>)

LinkText(s, ref, id) == <<"http">> \o s \o <<"://t.me/">> \o ref \o <<"/">> \o id
PublicLinkText(name, id) == LinkText(<<"s">>, name, id)
PrivateLinkText(channel_id, id) == LinkText(<<"s">>, <<"c", "/">> \o channel_id, id)

ChannelName == <<"c", "h", "a", "n", "n", "e", "l", "n", "a", "m", "e">>

\* the state after __init__, for a choice of configuration, chat and disk
InitFrom(configs, worlds, disks) ==
    /\ cfg \in configs
    /\ messages \in worlds
    /\ disk \in disks
    /\ downloaded_messages = {}
    /\ download_semaphore = [value |-> cfg.max_concurrent, waiters |-> <<>>]
    /\ active_downloads = 0
    /\ tasks = <<>>
    /\ handlers = <<>>

\* the stream delivers an update: a reaction on one of ids, or a text
DeliverReaction(ids, snapshots) ==
    \E msg_id \in ids, reactions \in snapshots : ReactionUpdate(msg_id, reactions)
DeliverText(chats, texts) ==
    \E chat \in chats, text \in texts : NewMessage(chat, text)

\* no run creates more tasks than this
MaxTasks == MaxEvents * MaxMsgId

ReactionSteps ==
    \E h \in 1..MaxEvents :
        \/ GetEntityReturns(h)
        \/ GetMessagesReturns(h)
        \/ IterMessagesReturns(h)
        \/ ReactionHandlerRaises(h)

LinkSteps ==
    \E h \in 1..MaxEvents :
        \/ GetChatReturns(h)
        \/ GetChatRaises(h)
        \/ LinkEntityReturns(h)
        \/ LinkMessagesReturns(h)
        \/ LinkIterReturns(h)
        \/ LinkCallRaises(h)

\* steps of a download task that every configuration has
TransferSteps ==
    \E t \in 1..MaxTasks :
        \/ TaskStart(t)
        \/ TaskResume(t)
        \/ TransferReturns(t)
        \/ TransferRaises(t)

Reactions == {MyHeart, OthersHeart}
Texts ==
    {PublicLinkText(ChannelUsername, <<"1">>),
     PublicLinkText(ChannelName, <<"4", "2">>),
     PrivateLinkText(NatToStr(ChannelId), <<"1">>)}

Init == InitFrom({BaseCfg}, Worlds, Disks)

Next ==
    \/ DeliverReaction(MsgIds, Reactions)
    \/ DeliverText({SavedMessages, TheChannel}, Texts)
    \/ ReactionSteps
    \/ LinkSteps
    \/ TransferSteps

Spec == Init /\ [][Next]_vars

(* ===================== C3: the pool bounds the transfers =============== *)
\* an album (ids 2 and 3) between single documents
PairAlbumWorld ==
    [id \in MsgIds |->
        IF id \in {2, 3} THEN Doc(<<"f", DigitChar(id), ".", "mkv">>, DocSize, 9)
        ELSE Doc(<<"g", DigitChar(id % 10), ".", "txt">>, DocSize, 0)]

\* capacities 1 and 2, no notification chat, no Sonarr
PoolCfgs == {[BaseCfg EXCEPT !.max_concurrent = n] : n \in {1, 2}}

\* every update is a link to the album sent to Saved Messages: each one
\* creates a task per album member
NextPool ==
    \/ DeliverText({SavedMessages}, {PublicLinkText(ChannelUsername, <<"2">>)})
    \/ LinkSteps
    \/ TransferSteps

SpecPool ==
    /\ InitFrom(PoolCfgs, {PairAlbumWorld}, {NoFiles})
    /\ [][NextPool]_vars

InFlightTasks == {t \in TaskIds : InFlight(t)}

\* C3: at most max_concurrent transfer calls are in flight, and the
\* active-download gauge stays between 0 and max_concurrent.
C3_TransfersBounded ==
    /\ Cardinality(InFlightTasks) <= cfg.max_concurrent
    /\ 0 <= active_downloads
    /\ active_downloads <= cfg.max_concurrent

\* two slots, both held by transfers in flight, two more tasks queued
C3_Witness ==
    /\ cfg.max_concurrent = 2
    /\ Cardinality(InFlightTasks) = 2
    /\ active_downloads = 2
    /\ Cardinality({t \in TaskIds : tasks[t].pc = "acquire"}) >= 2

(* ============== C4: one slot per task, released on every exit ========== *)
\* single documents: two with the same name, one the extension filter rejects,
\* one payload that is neither document nor photo
MixedWorld ==
    [id \in MsgIds |->
        CASE id % 4 = 1 -> Doc(AMkv, DocSize, 0)
          [] id % 4 = 2 -> Doc(<<"g", ".", "txt">>, DocSize, 0)
          [] id % 4 = 3 -> Doc(AMkv, DocSize, 0)
          [] OTHER -> Other("other")]

\* notifications and Sonarr on, only .mkv wanted, capacities 1 and 2
SlotCfgs ==
    {[FullCfg EXCEPT !.max_concurrent = n, !.file_extensions = <<<<".", "mkv">>>>] :
        n \in {1, 2}}

\* every update is the account's own reaction on a single message (no album,
\* no link, so the album and link steps cannot occur)
NextSlots ==
    \/ DeliverReaction(MsgIds, {MyHeart})
    \/ \E h \in 1..MaxEvents :
        \/ GetEntityReturns(h)
        \/ GetMessagesReturns(h)
        \/ ReactionHandlerRaises(h)
    \/ TransferSteps
    \/ \E t \in 1..MaxTasks :
        \/ NotifyStartReturns(t)
        \/ NotifyFailedReturns(t)
        \/ NotifyOkReturns(t)
        \/ SonarrReturns(t)

SpecSlots ==
    /\ InitFrom(SlotCfgs, {MixedWorld}, {NoFiles})
    /\ [][NextSlots]_vars

SlotHolders == {t \in TaskIds : HoldsSlot(t)}
\* waiters release() handed a permit to and that have not resumed yet
GrantedWaiters ==
    {i \in 1..Len(download_semaphore.waiters) : download_semaphore.waiters[i].woken}
RunningTasks == {t \in TaskIds : tasks[t].pc \notin {"created", "done"}}

\* C4: every task inside the semaphore body holds exactly one permit (permits
\* taken = tasks in the body + permits handed to woken waiters), the gauge is
\* the number of tasks in the body, a finished task holds none, and when no
\* task is running every permit is back and the gauge is 0.
C4_SlotAccounting ==
    /\ active_downloads = Cardinality(SlotHolders)
    /\ cfg.max_concurrent - download_semaphore.value
          = Cardinality(SlotHolders) + Cardinality(GrantedWaiters)
    /\ \A t \in TaskIds : InFlight(t) => t \in SlotHolders
    /\ RunningTasks = {} =>
          /\ download_semaphore.value = cfg.max_concurrent
          /\ download_semaphore.waiters = <<>>
          /\ active_downloads = 0

\* one slot; one task ended in a verification failure, another one succeeded
\* after a transfer, and the slot is free again
C4_Witness ==
    /\ cfg.max_concurrent = 1
    /\ download_semaphore.value = 1
    /\ \E t, u \in TaskIds :
          /\ tasks[t].pc = "done" /\ tasks[t].result = "false"
          /\ "failed" \in tasks[t].sent
          /\ tasks[u].pc = "done" /\ tasks[u].result = "true"
          /\ tasks[u].calls = 1

(* ============ C1: one task per key for concurrent reactions ============ *)
\* tasks created by reaction handlers for message id
ReactionTasks(id) ==
    {t \in TaskIds : tasks[t].msg = id /\ handlers[tasks[t].by].kind = "reaction"}

\* C1: as long as no task spawned for a key has completed, all the reaction
\* updates delivered for that key have spawned at most one download task,
\* wherever the handlers were when the later update arrived.
C1_OneTaskPerReactedKey ==
    \A id \in MsgIds :
        (\A t \in ReactionTasks(id) : tasks[t].pc # "done")
            => Cardinality(ReactionTasks(id)) <= 1

(* ================= C2: one transfer call per key, ever ================= *)
\* tasks that called message.download_media for message id
TransferCallers(id) == {t \in TaskIds : tasks[t].msg = id /\ tasks[t].calls > 0}

\* C2: for every key (the chat is the model's one channel) at most one
\* transfer call is ever executed, whichever updates resolved to the key.
C2_OneTransferPerKey ==
    \A id \in MsgIds : Cardinality(TransferCallers(id)) <= 1

(* ============= C5: one fetch attempt per link in a message ============= *)
LinkNames == {ChannelUsername, ChannelName}
LinkIds == {<<"1">>, <<"4", "2">>}

\* a link handler that went through the text of a message of the link chat
Processed(h) ==
    /\ handlers[h].kind = "link"
    /\ handlers[h].pc = "done"
    /\ ~handlers[h].failed
    /\ is_link_chat(handlers[h].chat)

\* C5: a message of the link chat holding one public link t.me/<name>/<id>
\* has led to exactly one fetch attempt, for chat <name>; one holding a
\* private link t.me/c/<internalId>/<id> to exactly one, of the private form.
C5_OneFetchPerLink ==
    \A h \in HandlerIds :
        Processed(h) =>
            /\ \A name \in LinkNames, id \in LinkIds :
                  handlers[h].text = PublicLinkText(name, id) =>
                      /\ Len(handlers[h].resolved) = 1
                      /\ handlers[h].resolved[1].form = "public"
                      /\ handlers[h].resolved[1].arg = name
            /\ \A id \in LinkIds :
                  handlers[h].text = PrivateLinkText(NatToStr(ChannelId), id) =>
                      /\ Len(handlers[h].resolved) = 1
                      /\ handlers[h].resolved[1].form = "private"

(* =============== C8: an album is resolved to its members =============== *)
\* the members of the album of anchor within the window of AlbumWindow ids
Siblings(anchor) ==
    {id \in DOMAIN messages :
        /\ messages[id].grouped_id = messages[anchor].grouped_id
        /\ anchor - AlbumWindow <= id
        /\ id <= anchor + AlbumWindow}

\* C8: when the reaction handler has resolved the album of its anchor, the
\* tasks it creates are one per member within the window whose key was not in
\* the set, in ascending order of message id, and exactly those keys are
\* added in the same step.
C8_AlbumResolved ==
    [][\A h \in 1..MaxEvents :
          (/\ h \in HandlerIds
           /\ handlers[h].pc = "iter_messages"
           /\ handlers'[h].pc = "done"
           /\ ~handlers'[h].failed)
          => LET fresh == SortedSeq({id \in Siblings(handlers[h].msg_id) :
                              MessageKey(ChannelId, id) \notin downloaded_messages})
             IN /\ Len(tasks') = Len(tasks) + Len(fresh)
                /\ \A i \in 1..Len(fresh) : tasks'[Len(tasks) + i].msg = fresh[i]
                /\ downloaded_messages' =
                      downloaded_messages \cup
                          {MessageKey(ChannelId, fresh[i]) : i \in 1..Len(fresh)}
      ]_vars

(* ========== C6, C7: a destination file that already exists ============= *)
\* a named document and photos (whose expected size is unknown)
DiskWorld ==
    [id \in MsgIds |->
        CASE id % 4 = 1 -> Doc(AMkv, DocSize, 0)
          [] id % 4 = 2 -> Photo(0)
          [] id % 4 = 3 -> Photo(0)
          [] OTHER -> Doc(AMkv, DocSize, 0)]

PhotoT1 == <<"telegram_photo_", "T1", ".", "jpg">>

\* download_path with a complete a.mkv next to a photo of the second T1
CompleteFiles == Put(Put(NoFiles, AMkv, DocSize), PhotoT1, PhotoSize)

\* one transfer at a time, no notification chat, no Sonarr
InitKept ==
    InitFrom({[BaseCfg EXCEPT !.max_concurrent = 1]}, {DiskWorld},
             {NoFiles, CompleteFiles})

\* reactions of the account on single messages
SingleReactionSteps ==
    \/ DeliverReaction(MsgIds, {MyHeart})
    \/ \E h \in 1..MaxEvents :
        \/ GetEntityReturns(h)
        \/ GetMessagesReturns(h)
        \/ ReactionHandlerRaises(h)

NextKept == SingleReactionSteps \/ TransferSteps

SpecKept == InitKept /\ [][NextKept]_vars

\* one transfer at a time, without and with notifications and Sonarr
DiskCfgs == {[c EXCEPT !.max_concurrent = 1] : c \in {BaseCfg, FullCfg}}

\* download_path with a partial a.mkv, or with one larger than the document
InitDisk ==
    InitFrom(DiskCfgs, {DiskWorld},
             {Put(NoFiles, AMkv, PartialSize), Put(NoFiles, AMkv, DocSize + 1)})

NextDisk ==
    \/ SingleReactionSteps
    \/ TransferSteps
    \/ \E t \in 1..MaxTasks :
        \/ NotifyStartReturns(t)
        \/ NotifyFailedReturns(t)
        \/ NotifyOkReturns(t)
        \/ SonarrReturns(t)

SpecDisk == InitDisk /\ [][NextDisk]_vars

\* task t enters _do_download in this step
EntersDownload(t) ==
    /\ t \in TaskIds
    /\ tasks[t].pc \in {"created", "acquire"}
    /\ tasks'[t].pc \notin {"created", "acquire"}

\* in this step task t reaches the destination test (media resolved at time
\* ts, filter passed) and finds a file at its path
FindsFile(t, ts) ==
    LET info == MediaInfo(messages[tasks[t].msg], ts)
        path == _sanitize_filename(info.filename)
    IN /\ EntersDownload(t)
       /\ info.ok
       /\ _should_download(cfg, path, info.file_size)
       /\ tasks'[t].path = path
       /\ path \in DOMAIN disk

\* C6: a task that reaches the destination test and finds a file whose size
\* is the expected one, or whose expected size is unknown (0), returns True in
\* that step without a transfer call, and the disk is unchanged.
C6_CompleteFileKept ==
    [][\A t \in 1..MaxTasks, ts \in Timestamps :
          (/\ FindsFile(t, ts)
           /\ \/ tasks'[t].file_size = 0
              \/ disk[tasks'[t].path] = tasks'[t].file_size)
          => /\ tasks'[t].pc = "done"
             /\ tasks'[t].result = "true"
             /\ tasks'[t].calls = 0
             /\ disk' = disk
      ]_vars

\* a document and a photo were both found complete on disk and left alone
C6_Witness ==
    \E t, u \in TaskIds :
        /\ messages[tasks[t].msg].media = "document"
        /\ messages[tasks[u].msg].media = "photo"
        /\ \A x \in {t, u} :
              /\ tasks[x].pc = "done" /\ tasks[x].result = "true"
              /\ tasks[x].calls = 0
              /\ Exists(disk, tasks[x].path)
        /\ disk[tasks[t].path] = DocSize

\* C7: a task that reaches the destination test and finds a file whose size
\* differs from the known expected size removes the file in that step and goes
\* on to the transfer (directly, or through the start notification, whose
\* return is always followed by the transfer call).
C7_PartialFileReplaced ==
    [][\A t \in 1..MaxTasks :
          /\ \A ts \in Timestamps :
                (/\ FindsFile(t, ts)
                 /\ tasks'[t].file_size > 0
                 /\ disk[tasks'[t].path] # tasks'[t].file_size)
                => /\ ~Exists(disk', tasks'[t].path)
                   /\ tasks'[t].deleted
                   /\ IF NotificationsOn
                      THEN tasks'[t].pc = "notify_start" /\ tasks'[t].calls = 0
                      ELSE tasks'[t].pc = "transfer" /\ tasks'[t].calls = 1
          /\ (/\ t \in TaskIds
              /\ tasks[t].pc = "notify_start"
              /\ tasks'[t] # tasks[t])
             => /\ tasks'[t].pc = "transfer"
                /\ tasks'[t].calls = tasks[t].calls + 1
                /\ tasks'[t].deleted = tasks[t].deleted
      ]_vars

\* the partial file is gone and the transfer call was made after the start
\* notification
C7_Witness ==
    \E t \in TaskIds :
        /\ NotificationsOn
        /\ tasks[t].deleted
        /\ tasks[t].pc = "transfer"
        /\ tasks[t].calls = 1
        /\ ~Exists(disk, tasks[t].path)

(* ============ C9: the handlers never wait for a download =============== *)
\* one transfer at a time, notifications on
IntakeCfg == [BaseCfg EXCEPT !.max_concurrent = 1, !.notification_chat = Me]

\* one document, then an album whose members carry no media
IntakeWorld ==
    [id \in MsgIds |->
        IF id = 1 THEN Doc(AMkv, DocSize, 0)
        ELSE [Other("none") EXCEPT !.grouped_id = 9]]

InitIntake == InitFrom({IntakeCfg}, {IntakeWorld}, {NoFiles})

\* the steps of handler invocation h: a client call it awaits returns or raises
HandlerStep(h) ==
    \/ ReactionHandlerRaises(h)
    \/ GetChatRaises(h)
    \/ LinkCallRaises(h)
    \/ LinkNotifyReturns(h)
    \/ GetEntityReturns(h)
    \/ GetMessagesReturns(h)
    \/ IterMessagesReturns(h)
    \/ GetChatReturns(h)
    \/ LinkEntityReturns(h)
    \/ LinkMessagesReturns(h)
    \/ LinkIterReturns(h)

NextIntake ==
    \/ DeliverReaction(MsgIds, {MyHeart})
    \/ DeliverText({SavedMessages},
                   {PublicLinkText(ChannelUsername, <<"1">>),
                    PublicLinkText(ChannelUsername, <<"2">>)})
    \/ \E h \in 1..MaxEvents : HandlerStep(h)
    \/ TransferSteps
    \/ \E t \in 1..MaxTasks :
        \/ NotifyStartReturns(t)
        \/ NotifyFailedReturns(t)
        \/ NotifyOkReturns(t)

SpecIntake == InitIntake /\ [][NextIntake]_vars

\* C9: a handler that has not returned is never held up by a download: the
\* return (or failure) of the client call it awaits is possible in every
\* reachable state, whatever the tasks are doing, and also when every slot is
\* held by a transfer that has not finished.
C9_HandlersNeverWait ==
    \A h \in 1..MaxEvents :
        (h \in HandlerIds /\ handlers[h].pc # "done") => ENABLED HandlerStep(h)

\* a reaction handler and a link handler have both returned after creating
\* tasks, while the only slot is held by a transfer in flight and a task they
\* created still waits for the slot
C9_Witness ==
    /\ Cardinality(InFlightTasks) = cfg.max_concurrent
    /\ \E t \in TaskIds : tasks[t].pc = "acquire"
    /\ \E h, g \in HandlerIds :
          /\ handlers[h].kind = "reaction" /\ handlers[g].kind = "link"
          /\ \A x \in {h, g} :
                /\ handlers[x].pc = "done"
                /\ handlers[x].spawned # <<>>
                /\ \E i \in 1..Len(handlers[x].spawned) :
                      tasks[handlers[x].spawned[i]].pc # "done"

(* ============== C10: the account's own reaction is found =============== *)
\* a custom emoji: its reaction object has no emoticon attribute
CustomEntry == [has_emoticon |-> FALSE, emoticon |-> <<>>, chosen_order |-> "0"]

Entries ==
    {Entry(e, c) : e \in {<<Heart>>, <<Heart, VS16>>, <<Thumb>>}, c \in {"None", "0"}}
        \cup {CustomEntry}

\* no snapshot, an empty one, and every snapshot of one or two entries
MatcherSnapshots ==
    {NoReactions, Snapshot(<<>>)}
        \cup {Snapshot(<<a>>) : a \in Entries}
        \cup {Snapshot(<<a, b>>) : a \in Entries, b \in Entries}

\* the target emoji configured with and without the variation selector
MatcherCfgs == {BaseCfg, [BaseCfg EXCEPT !.reaction_emoji = <<Heart>>]}

NextMatcher == DeliverReaction({1}, MatcherSnapshots)
SpecMatcher ==
    /\ InitFrom(MatcherCfgs, {SinglesWorld}, {NoFiles})
    /\ [][NextMatcher]_vars

IsNotVS16(c) == c # VS16
\* a symbol with every U+FE0F taken out
Stripped(emoji) == SelectSeq(emoji, IsNotVS16)

\* some entry of the snapshot carries the target symbol, U+FE0F apart, and
\* was chosen by the account
SelfChosen(reactions, target) ==
    /\ reactions.present
    /\ \E i \in 1..Len(reactions.results) :
          /\ reactions.results[i].has_emoticon
          /\ Stripped(reactions.results[i].emoticon) = Stripped(target)
          /\ reactions.results[i].chosen_order # "None"

\* C10: the result of _has_my_reaction for every update delivered is true
\* exactly when some entry's symbol equals the target once U+FE0F is removed
\* from both and that entry is the account's own choice; so it is false for an
\* absent or empty snapshot and for a matching symbol nobody but others chose.
C10_SelfReactionFound ==
    \A h \in HandlerIds :
        handlers[h].kind = "reaction" =>
            handlers[h].matched = SelfChosen(handlers[h].reactions, cfg.reaction_emoji)

\* one update matched on its second entry, written unlike the target, after a
\* first entry with the same symbol chosen by others only; another update
\* with the target symbol chosen by others only did not match
C10_Witness ==
    \E h, g \in HandlerIds :
        /\ handlers[h].matched
        /\ Len(handlers[h].reactions.results) = 2
        /\ handlers[h].reactions.results[1].chosen_order = "None"
        /\ Stripped(handlers[h].reactions.results[1].emoticon) = <<Heart>>
        /\ handlers[h].reactions.results[2].emoticon # cfg.reaction_emoji
        /\ ~handlers[g].matched
        /\ handlers[g].reactions = Snapshot(<<Entry(cfg.reaction_emoji, "None")>>)

(* ================ C11: file names are cleaned up ======================= *)
\* the characters file names are made of: the nine replaced ones and others
\* every file name of at most MaxLen characters over the characters that
\* are replaced and three that are not
FileNames ==
    LET chars == SeqToSet(invalid_chars) \cup {"a", "_", "."}
    IN UNION {[1..k -> chars] : k \in 1..MaxLen}

\* message 1 is a document with the given file name
NamedWorld(name) ==
    [id \in MsgIds |-> IF id = 1 THEN Doc(name, DocSize, 0) ELSE Other("none")]

NextFirstMessage ==
    \/ DeliverReaction({1}, {MyHeart})
    \/ \E h \in 1..MaxEvents :
        \/ GetEntityReturns(h)
        \/ GetMessagesReturns(h)
        \/ ReactionHandlerRaises(h)
    \/ \E t \in 1..MaxTasks : TaskStart(t)

\* one transfer at a time; only .zip files are wanted
SpecSanitize ==
    /\ InitFrom({[BaseCfg EXCEPT !.max_concurrent = 1,
                                 !.file_extensions = <<<<".", "zip">>>>]},
                {NamedWorld(name) : name \in FileNames}, {NoFiles})
    /\ [][NextFirstMessage]_vars

Replaced == {"<", ">", ":", "\"", "/", "\\", "|", "?", "*"}

\* C11: the name a task has computed for a document has the length of the
\* document's file name, holds "_" wherever that name holds one of the nine
\* characters and the same character elsewhere, so none of the nine; cleaning
\* it up once more gives the same name.
C11_SanitizedNames ==
    \A t \in TaskIds :
        (tasks[t].pc = "done" /\ messages[tasks[t].msg].media = "document") =>
            LET name == messages[tasks[t].msg].file_name
                out == tasks[t].path
            IN /\ Len(out) = Len(name)
               /\ \A i \in 1..Len(name) :
                     /\ out[i] = (IF name[i] \in Replaced THEN "_" ELSE name[i])
                     /\ out[i] \notin Replaced
               /\ _sanitize_filename(out) = out

\* a name made of the same replaced character twice has been cleaned up
C11_Witness ==
    \E t \in TaskIds :
        /\ tasks[t].pc = "done"
        /\ messages[tasks[t].msg].file_name = <<"*", "*">>
        /\ tasks[t].path = <<"_", "_">>

(* ============ C12: each link of a message is handled alone ============= *)
\* one text with two public links, to messages 1 and 2 of the channel
NextLinks ==
    \/ DeliverText({SavedMessages},
                   {PublicLinkText(ChannelUsername, <<"1">>) \o <<" ">>
                        \o PublicLinkText(ChannelUsername, <<"2">>)})
    \/ LinkSteps
    \/ \E h \in 1..MaxEvents : LinkNotifyReturns(h)
    \/ TransferSteps
    \/ \E t \in 1..MaxTasks :
        \/ NotifyStartReturns(t)
        \/ NotifyFailedReturns(t)
        \/ NotifyOkReturns(t)

SpecLinks == InitIntake /\ [][NextLinks]_vars

\* the links of a text, in the order the handler takes them
LinksOf(text) ==
    Tagged("public", public_matches(text)) \o Tagged("private", private_matches(text))

\* handler h has sent the notification what for link
Notified(h, what, link) ==
    \E i \in 1..Len(handlers[h].sent) : handlers[h].sent[i] = <<what, link>>

\* C12: when the handler of a message of the link chat has returned (a
\* notification chat being configured), every link of the text was taken up,
\* and each one either started its download or, having failed (a call raised
\* or the fetch returned no message), has its own failure notification.
C12_EachLinkHandled ==
    \A h \in HandlerIds :
        (Processed(h) /\ NotificationsOn) =>
            LET links == LinksOf(handlers[h].text)
            IN /\ Len(handlers[h].resolved) = Len(links)
               /\ \A i \in 1..Len(links) :
                     \/ Notified(h, "started", links[i])
                     \/ Notified(h, "failed", links[i])

(* ====================================================================== *)
(* C13, C14: the chat scope filter of the reaction handler                *)
(* ====================================================================== *)
\* MONITORED_CHATS: empty; the channel by its bare id, with a minus sign,
\* with the broadcast-chat marker "-100", by its username; another chat's id
\* or username; lists of two entries
AllowLists ==
    LET bare == NatToStr(ChannelId)
        other_id == <<"9", "9">>
        other_name == <<"@", "o", "t", "h", "e", "r">>
    IN {<<>>, <<bare>>, <<<<"-">> \o bare>>, <<<<"-", "1", "0", "0">> \o bare>>,
        <<<<"@">> \o ChannelUsername>>, <<other_id>>, <<other_name>>,
        <<other_name, bare>>, <<other_id, other_name>>}

\* one transfer at a time, each allow-list in turn; reactions of the account
\* on message 1, a document
SpecScope ==
    /\ InitFrom({[BaseCfg EXCEPT !.max_concurrent = 1, !.monitored_chats = l] :
                    l \in AllowLists},
                {SinglesWorld}, {NoFiles})
    /\ [][NextFirstMessage]_vars

\* the de-prefixed form of a numeric identifier: without the broadcast-chat
\* marker "-100", or else without the minus sign
Deprefix(s) ==
    IF Len(s) > 4 /\ SubSeq(s, 1, 4) = <<"-", "1", "0", "0">>
    THEN SubSeq(s, 5, Len(s))
    ELSE IF s # <<>> /\ Head(s) = "-" THEN Tail(s) ELSE s

Forms(s) == {s, Deprefix(s)}

\* a numeric allow-list entry denotes the chat in either form
Denotes(entry, chat_id) ==
    /\ IsDigit(Deprefix(entry))
    /\ Forms(entry) \cap Forms(IntToStr(chat_id)) # {}

\* an @username entry names the chat
Names(entry, chat_username) ==
    entry # <<>> /\ Head(entry) = "@" /\ Tail(entry) = chat_username

\* the handler of a matching reaction got past the scope filter
PassedScope(h) ==
    \/ handlers[h].fetches # <<>>
    \/ MessageKey(ChannelId, handlers[h].msg_id) \in downloaded_messages

Decided(h) ==
    /\ handlers[h].kind = "reaction"
    /\ handlers[h].matched
    /\ handlers[h].pc # "get_entity"
    /\ ~handlers[h].failed

\* C13: with a non-empty allow-list, a chat that some numeric entry denotes
\* in its raw or de-prefixed form (minus sign or broadcast-chat marker
\* removed) is in scope: the handler of a matching reaction goes on to the
\* ledger check and the message fetch
C13_EitherFormInScope ==
    \A h \in HandlerIds :
        (/\ Decided(h)
         /\ cfg.monitored_chats # <<>>
         /\ \E i \in 1..Len(cfg.monitored_chats) :
                Denotes(cfg.monitored_chats[i], ChannelId))
        => PassedScope(h)

\* C14: with an empty allow-list every chat is in scope; with a non-empty
\* allow-list that has no entry for the chat, neither by username nor by
\* number, a reaction update fetches no message, adds nothing to the ledger
\* and creates no download task
C14_OutOfScopeNoEffect ==
    /\ cfg.monitored_chats = <<>> =>
          \A h \in HandlerIds : Decided(h) => PassedScope(h)
    /\ (/\ cfg.monitored_chats # <<>>
        /\ \A i \in 1..Len(cfg.monitored_chats) :
              /\ ~Names(cfg.monitored_chats[i], ChannelUsername)
              /\ ~Denotes(cfg.monitored_chats[i], ChannelId))
       => /\ downloaded_messages = {}
          /\ tasks = <<>>
          /\ \A h \in HandlerIds :
                handlers[h].fetches = <<>> /\ handlers[h].spawned = <<>>

\* a matching reaction from a chat outside a non-empty allow-list was dropped
C14_Witness ==
    /\ cfg.monitored_chats = <<<<"9", "9">>, <<"@", "o", "t", "h", "e", "r">>>>
    /\ \E h \in HandlerIds :
          Decided(h) /\ handlers[h].pc = "done" /\ handlers[h].fetches = <<>>
    /\ tasks = <<>>

(* ====================================================================== *)
(* C15: a reaction whose key is already in downloaded_messages            *)
(* ====================================================================== *)
\* handler h leaves its get_entity call in this step
LeavesGetEntity(h) ==
    /\ h \in HandlerIds
    /\ handlers[h].pc = "get_entity"
    /\ handlers'[h].pc # "get_entity"

\* C15: a reaction update whose key is in the ledger when the handler looks
\* it up fetches no message, leaves the ledger as it is and creates no task,
\* whatever became of the earlier task for that key
C15_KnownKeyDropped ==
    [][\A h \in 1..MaxEvents :
          (/\ LeavesGetEntity(h)
           /\ MessageKey(ChannelId, handlers[h].msg_id) \in downloaded_messages)
          => /\ handlers'[h].pc = "done"
             /\ handlers'[h].fetches = <<>>
             /\ handlers'[h].spawned = <<>>
             /\ tasks' = tasks
             /\ downloaded_messages' = downloaded_messages]_vars

\* the second reaction on a message was dropped; the task of the first one
\* has failed and stays the only task
C15_Witness ==
    /\ Len(handlers) = 2 /\ Len(tasks) = 1
    /\ handlers[1].spawned = <<1>>
    /\ handlers[2].msg_id = handlers[1].msg_id
    /\ handlers[2].matched /\ ~handlers[2].failed
    /\ handlers[2].pc = "done" /\ handlers[2].fetches = <<>>
    /\ tasks[1].pc = "done" /\ tasks[1].result = "false" /\ tasks[1].calls = 1

(* ====================================================================== *)
(* C16: the key is claimed before the task exists; the set only grows     *)
(* ====================================================================== *)
\* task t was created by a reaction handler
ByReaction(ts, t) == handlers'[ts[t].by].kind = "reaction"

\* C16: a task the reaction handler creates, for a single message or an
\* album member, has its key in the ledger from the step that creates it,
\* before its transfer call is made; no step of any handler or task removes
\* a key from the ledger
C16_ClaimThenAct ==
    [][/\ downloaded_messages \subseteq downloaded_messages'
       /\ \A t \in 1..MaxTasks :
            /\ (t \notin TaskIds /\ t <= Len(tasks') /\ ByReaction(tasks', t))
               => /\ MessageKey(ChannelId, tasks'[t].msg) \in downloaded_messages'
                  /\ tasks'[t].pc = "created"
                  /\ tasks'[t].calls = 0
            /\ (t \in TaskIds /\ ByReaction(tasks, t)
                  /\ tasks'[t].calls > tasks[t].calls)
               => MessageKey(ChannelId, tasks[t].msg) \in downloaded_messages]_vars

\* a reaction on the album has created a task per member, a reaction on the
\* document a task that failed after its transfer call; all keys are there
C16_Witness ==
    /\ \E h \in HandlerIds :
          /\ handlers[h].kind = "reaction"
          /\ Len(handlers[h].spawned) >= 2
          /\ \A i \in 1..Len(handlers[h].spawned) :
                MessageKey(ChannelId, tasks[handlers[h].spawned[i]].msg)
                    \in downloaded_messages
    /\ \E t \in TaskIds :
          /\ handlers[tasks[t].by].kind = "reaction"
          /\ tasks[t].pc = "done" /\ tasks[t].result = "false"
          /\ tasks[t].calls = 1
          /\ MessageKey(ChannelId, tasks[t].msg) \in downloaded_messages

(* ====================================================================== *)
(* C17: the size check after the transfer                                 *)
(* ====================================================================== *)
\* in this step the transfer call of task t returns and leaves a file whose
\* size is not the known expected one
ReturnsWrongSize(t) ==
    /\ TransferReturns(t)
    /\ tasks[t].file_size > 0
    /\ Exists(disk', tasks[t].path)
    /\ disk'[tasks[t].path] # tasks[t].file_size

\* task t ends in this step as a failure and gives its slot back
EndsFailed(t) ==
    /\ tasks'[t].pc = "done"
    /\ tasks'[t].result = "false"
    /\ "downloaded" \notin tasks'[t].sent
    /\ ~tasks'[t].imported
    /\ tasks'[t].calls = 1
    /\ active_downloads' = active_downloads - 1
    /\ download_semaphore' = Release(download_semaphore)

\* C17: when the transfer call returns and the file's size differs from the
\* known expected size, the failure notification is sent (to the configured
\* chat) and the item ends with result False: no success notification, no
\* post-import call, the slot released, and no further transfer call, the
\* task being over for good
C17_SizeMismatchFails ==
    [][\A t \in 1..MaxTasks :
          /\ ReturnsWrongSize(t)
             => IF NotificationsOn
                THEN /\ tasks'[t].pc = "notify_failed"
                     /\ "failed" \in tasks'[t].sent
                     /\ "downloaded" \notin tasks'[t].sent
                     /\ tasks'[t].calls = 1
                ELSE EndsFailed(t)
          /\ (/\ t \in TaskIds
              /\ tasks[t].pc = "notify_failed"
              /\ tasks'[t] # tasks[t])
             => EndsFailed(t)
          /\ (t \in TaskIds /\ tasks[t].pc = "done") => tasks'[t] = tasks[t]
      ]_vars

\* with notifications and Sonarr configured, a video transfer that left a
\* partial file ended as a failure after one call, the slot is free again
C17_Witness ==
    \E t \in TaskIds :
        /\ cfg.sonarr_enabled /\ NotificationsOn
        /\ Lower(Suffix(tasks[t].path)) \in VideoSuffixes
        /\ tasks[t].pc = "done" /\ tasks[t].result = "false"
        /\ tasks[t].sent = {"downloading", "failed"}
        /\ ~tasks[t].imported
        /\ tasks[t].calls = 1
        /\ disk[tasks[t].path] = PartialSize
        /\ active_downloads = 0
        /\ download_semaphore.value = cfg.max_concurrent

(* ====================================================================== *)
(* C18: the Sonarr import after a download                                *)
(* ====================================================================== *)
\* import_to_sonarr is called for task t in this step
HookInvoked(t) ==
    /\ t \in TaskIds
    /\ ~tasks[t].imported
    /\ tasks'[t].imported

\* the file of task t is on disk d with the expected size, when it is known
VerifiedOn(d, rec) ==
    /\ Exists(d, rec.path)
    /\ rec.file_size > 0 => d[rec.path] = rec.file_size

\* C18: import_to_sonarr is called for an item only after its transfer call
\* returned and left the file verified (on disk, with the expected size when
\* known), and only with Sonarr enabled and a video suffix; whatever the
\* call meets (201, another status, an exception), the item then ends with
\* result True
C18_HookAfterVerifiedSuccess ==
    [][\A t \in 1..MaxTasks :
          /\ HookInvoked(t)
             => /\ cfg.sonarr_enabled
                /\ Lower(Suffix(tasks'[t].path)) \in VideoSuffixes
                /\ tasks'[t].calls = 1
                /\ "failed" \notin tasks'[t].sent
                /\ VerifiedOn(disk', tasks'[t])
          /\ (/\ t \in TaskIds
              /\ tasks[t].pc = "sonarr"
              /\ tasks'[t] # tasks[t])
             => /\ tasks'[t].pc = "done"
                /\ tasks'[t].result = "true"
                /\ tasks'[t].hook \in HookOutcomes
      ]_vars

(* ====================================================================== *)
(* C19: exceptions of the client, notification and Sonarr calls           *)
(* ====================================================================== *)
\* a reaction on the document, or a link to it sent to Saved Messages
NextFaults ==
    \/ DeliverReaction({1}, {MyHeart})
    \/ DeliverText({SavedMessages}, {PublicLinkText(ChannelUsername, <<"1">>)})
    \/ \E h \in 1..MaxEvents :
        \/ GetEntityReturns(h)
        \/ GetMessagesReturns(h)
        \/ ReactionHandlerRaises(h)
        \/ GetChatReturns(h)
        \/ GetChatRaises(h)
        \/ LinkEntityReturns(h)
        \/ LinkMessagesReturns(h)
        \/ LinkCallRaises(h)
        \/ LinkNotifyReturns(h)
    \/ TransferSteps
    \/ \E t \in 1..MaxTasks :
        \/ NotifyStartReturns(t)
        \/ NotifyFailedReturns(t)
        \/ NotifyOkReturns(t)
        \/ SonarrReturns(t)

\* one transfer at a time, notifications and Sonarr on
SpecFaults ==
    /\ InitFrom({[FullCfg EXCEPT !.max_concurrent = 1]}, {IntakeWorld}, {NoFiles})
    /\ [][NextFaults]_vars

\* an exception of get_entity or get_messages in a reaction handler, or of get_chat in a link handler, ends the handling of that
\* update as failed: nothing is spawned, the ledger and the tasks are as before
UpdateFails(h) ==
    (ReactionHandlerRaises(h) \/ GetChatRaises(h))
    => /\ handlers'[h].pc = "done"
       /\ handlers'[h].failed
       /\ handlers'[h].spawned = <<>>
       /\ tasks' = tasks
       /\ downloaded_messages' = downloaded_messages

\* an exception while one link is resolved or fetched fails that link: no
\* task for it, the failure notification, and the rest of the links go on
LinkFails(h) ==
    LinkCallRaises(h)
    => /\ tasks' = tasks
       /\ handlers'[h].spawned = handlers[h].spawned
       /\ NotificationsOn =>
            /\ handlers'[h].pc = "l_notify"
            /\ handlers'[h].sent = Append(handlers[h].sent, <<"failed", handlers[h].cur>>)
       /\ handlers'[h].queue = handlers[h].queue
       /\ ~handlers'[h].failed

\* an exception of the transfer call ends the task with result False and
\* gives the slot back
TransferFails(t) ==
    TransferRaises(t)
    => /\ tasks'[t].pc = "done"
       /\ tasks'[t].result = "false"
       /\ active_downloads' = active_downloads - 1
       /\ download_semaphore' = Release(download_semaphore)

\* the call of import_to_sonarr for task t ends with an exception in this step
HookRaises(t) ==
    /\ t \in TaskIds
    /\ tasks[t].pc = "sonarr"
    /\ tasks'[t].hook = "error"

\* the stream can deliver its next update
IntakeOpen ==
    Len(handlers) < MaxEvents
    => /\ ENABLED DeliverReaction({1}, {MyHeart})
       /\ ENABLED DeliverText({SavedMessages}, {PublicLinkText(ChannelUsername, <<"1">>)})

\* C19 as stated: an exception of any external call, the post-import call
\* included, is caught and makes the item a failed one, and intake goes on
C19_AnyExceptionFailsItem ==
    /\ [][/\ \A h \in 1..MaxEvents : UpdateFails(h) /\ LinkFails(h)
          /\ \A t \in 1..MaxTasks :
                /\ TransferFails(t)
                /\ HookRaises(t) => tasks'[t].result = "false"]_vars
    /\ []IntakeOpen

\* C19, amended: an exception of chat resolution, message fetch or transfer
\* is caught and makes that item a failed one (handler failed, link failed
\* and notified, task result False with the slot released); an exception of
\* the post-import call is caught and leaves the item successful; in every
\* state the stream can deliver its next update
C19_ExceptionsContained ==
    /\ [][/\ \A h \in 1..MaxEvents : UpdateFails(h) /\ LinkFails(h)
          /\ \A t \in 1..MaxTasks :
                /\ TransferFails(t)
                /\ HookRaises(t) =>
                      /\ tasks'[t].pc = "done"
                      /\ tasks'[t].result = "true"
                      /\ active_downloads' = active_downloads - 1]_vars
    /\ []IntakeOpen

\* the first update failed in its handler, the one delivered after it was
\* handled and its download ended well although the Sonarr call raised
C19_Witness ==
    /\ Len(handlers) = 2
    /\ handlers[1].failed
    /\ handlers[2].pc = "done" /\ ~handlers[2].failed
    /\ handlers[2].spawned # <<>>
    /\ \E t \in TaskIds :
          /\ tasks[t].by = 2
          /\ tasks[t].pc = "done" /\ tasks[t].result = "true"
          /\ tasks[t].hook = "error"

(* ====================================================================== *)
(* C20: what is decided before the slot is taken                          *)
(* ====================================================================== *)
\* the media of task t is a document or photo that the filter lets through
Wanted(t) ==
    \A ts \in Timestamps :
        LET info == MediaInfo(messages[tasks[t].msg], ts)
        IN /\ info.ok
           /\ _should_download(cfg, _sanitize_filename(info.filename), info.file_size)

\* C20: resolution, filter and destination test come before the slot: a
\* task only waits for a slot when its media is supported and passes the
\* filter, and a task that waited goes on to its transfer; none ends, as
\* unsupported, rejected or already complete, out of the wait for a slot
C20_DecidedBeforeSlot ==
    [][\A t \in 1..MaxTasks :
          t \in TaskIds =>
             /\ tasks'[t].pc = "acquire" => Wanted(t)
             /\ tasks[t].pc = "acquire" => tasks'[t].pc # "done"]_vars

(* ====================================================================== *)
(* C21: the filter decision                                               *)
(* ====================================================================== *)
\* size limits 0 (none), 1 and 2; no extension list, lists of one and two
\* extensions, a list written in capitals.  Message 1 is a document whose
\* name has a suffix in small or capital letters, another suffix, none, a
\* leading or a trailing dot, and whose size is 0 to 3.
SpecFilter ==
    /\ InitFrom(
          {[BaseCfg EXCEPT !.max_concurrent = 1, !.max_file_size = m,
                           !.file_extensions = e] :
              m \in 0..2,
              e \in {<<>>, <<<<".", "mkv">>>>, <<<<".", "txt">>, <<".", "mkv">>>>,
                     <<<<".", "MKV">>>>}},
          {[id \in MsgIds |-> IF id = 1 THEN Doc(name, size, 0) ELSE Other("none")] :
              name \in {AMkv, <<"a", ".", "MKV">>, <<"a", ".", "txt">>, <<"a">>,
                        <<".", "mkv">>, <<"a", ".">>, <<"a", ".", "txt", ".", "mkv">>},
              size \in 0..3},
          {NoFiles})
    /\ [][NextFirstMessage]_vars

\* the extension of a name: what follows its last dot, the dot included,
\* when that dot is neither the first nor the last character
HasExtension(name, ext) ==
    \E i \in 2..(Len(name) - 1) :
        /\ name[i] = "."
        /\ \A j \in (i + 1)..Len(name) : name[j] # "."
        /\ ext = SubSeq(name, i, Len(name))

\* the lower-cased extension of name is one of the listed ones
ExtensionListed(name, list) ==
    \E k \in 1..Len(list), ext \in {SubSeq(name, i, Len(name)) : i \in 1..Len(name)} :
        HasExtension(name, ext) /\ Lower(ext) = list[k]

Rejects(c, name, size) ==
    \/ c.max_file_size > 0 /\ size > c.max_file_size
    \/ c.file_extensions # <<>> /\ ~ExtensionListed(name, c.file_extensions)

\* C21: the filter rejects a file exactly when a size limit above 0 is set
\* and the size exceeds it, or an extension list is set and the lower-cased
\* extension of the name is not in it; so size 0 passes every size limit and
\* limit 0 rejects nothing.  A rejected task returns False at once, an
\* accepted one makes its transfer call.
C21_FilterDecision ==
    \A t \in TaskIds :
        (tasks[t].pc \notin {"created", "acquire"}
            /\ messages[tasks[t].msg].media = "document")
        => LET name == messages[tasks[t].msg].file_name
               size == messages[tasks[t].msg].size
               rejected == tasks[t].pc = "done" /\ tasks[t].result = "false"
                             /\ tasks[t].calls = 0
           IN /\ rejected <=> Rejects(cfg, name, size)
              /\ ~rejected => tasks[t].pc = "transfer" /\ tasks[t].calls = 1
              /\ _should_download(cfg, name, size) <=> ~Rejects(cfg, name, size)
              /\ (cfg.file_extensions = <<>> /\ (size = 0 \/ cfg.max_file_size = 0))
                    => ~rejected

\* a document of size 0 named in capitals passed a size limit and an
\* extension list
C21_Witness ==
    \E t \in TaskIds :
        /\ cfg.max_file_size = 1
        /\ cfg.file_extensions = <<<<".", "mkv">>>>
        /\ messages[tasks[t].msg].file_name = <<"a", ".", "MKV">>
        /\ messages[tasks[t].msg].size = 0
        /\ tasks[t].pc = "transfer"

(* ====================================================================== *)
(* C22: the chat identifier of a private link                             *)
(* ====================================================================== *)
\* C22: for a link t.me/c/<internalId>/<id> the identifier handed to
\* get_entity is the internal id with the marker in front, the digits of
\* internalId written after "-100"; with it the channel the link refers to is
\* the one resolved
C22_PrivateIdMarked ==
    \A h \in HandlerIds :
        handlers[h].kind = "link" =>
            \A i \in 1..Len(handlers[h].resolved) :
                LET link == LinksOf(handlers[h].text)[i]
                IN handlers[h].resolved[i].form = "private" =>
                      /\ handlers[h].resolved[i].arg
                            = -ParseInt(<<"1", "0", "0">> \o link.ref)
                      /\ link.ref = NatToStr(ChannelId) => EntityResolves(link)

(* ====================================================================== *)
(* C23: two tasks and one destination path                                *)
(* ====================================================================== *)
\* task t removes the file at its destination in this step
DeletesFile(t) ==
    /\ t \in TaskIds
    /\ ~tasks[t].deleted
    /\ tasks'[t].deleted

\* C23: no two tasks have transfer calls in flight to the same path at the
\* same time, and no task removes a destination file while the transfer of
\* another task to that path is in flight
C23_OneWriterPerPath ==
    [][\A t, u \in 1..MaxTasks :
          (t \in TaskIds /\ u \in TaskIds /\ t # u) =>
             /\ (tasks'[t].pc = "transfer" /\ tasks'[u].pc = "transfer")
                => tasks'[t].path # tasks'[u].path
             /\ (DeletesFile(t) /\ InFlight(u))
                => tasks'[t].path # tasks[u].path]_vars

(* ====================================================================== *)
(* C24: what a reported success rests on                                  *)
(* ====================================================================== *)
\* the transfer call of task t is over in this step and the item is treated
\* as downloaded: the success notification, the Sonarr call or return True
ReportsSuccess(t) ==
    /\ t \in TaskIds
    /\ tasks[t].pc = "transfer"
    /\ \/ "downloaded" \in tasks'[t].sent
       \/ tasks'[t].pc = "sonarr"
       \/ tasks'[t].result = "true"

\* C24: an item is reported successful after its transfer only when the
\* destination file is on disk and, the expected size being known, has that
\* size; a transfer call that leaves no file never gives a success
C24_SuccessMeansFile ==
    [][\A t \in 1..MaxTasks :
          ReportsSuccess(t) => VerifiedOn(disk', tasks'[t])]_vars

(* ====================================================================== *)
(* C25: a fetch that gives no message leaves the key free                 *)
(* ====================================================================== *)
\* the handling of a reaction ends in this step with nothing spawned: the
\* fetch returned no message, or one of its calls raised
EndsEmptyHanded(h) ==
    /\ h \in HandlerIds
    /\ handlers[h].kind = "reaction"
    /\ handlers[h].pc # "done"
    /\ handlers'[h].pc = "done"
    /\ handlers'[h].spawned = <<>>

\* C25: when the fetch for a reaction update returns no message or raises,
\* the ledger and the tasks stay as they are, so that the key can be claimed
\* by a later delivery; a key enters the ledger only in a step that creates
\* a task for the message of that key
C25_NoClaimWithoutTask ==
    [][/\ \A h \in 1..MaxEvents :
            EndsEmptyHanded(h) =>
               /\ downloaded_messages' = downloaded_messages
               /\ tasks' = tasks
       /\ \A key \in downloaded_messages' \ downloaded_messages :
            \E t \in (Len(tasks) + 1)..Len(tasks') :
               key = MessageKey(ChannelId, tasks'[t].msg)]_vars

\* the first reaction on the document was lost to a failed fetch or one
\* that found nothing; the second one claimed the key and its download ended
\* well
C25_Witness ==
    /\ Len(handlers) = 2
    /\ \A h \in {1, 2} : handlers[h].kind = "reaction" /\ handlers[h].matched
    /\ handlers[1].msg_id = handlers[2].msg_id
    /\ handlers[1].pc = "done" /\ handlers[1].spawned = <<>>
    /\ handlers[1].fetches # <<>>
    /\ handlers[2].spawned # <<>>
    /\ tasks[handlers[2].spawned[1]].result = "true"
    /\ MessageKey(ChannelId, handlers[2].msg_id) \in downloaded_messages

(* ====================================================================== *)
(* C26: every task gets its slot and ends                                 *)
(* ====================================================================== *)
\* a step of some download task: the event loop runs it, or the call it
\* awaits (notification, transfer, Sonarr) returns or raises
TaskSteps ==
    \/ \E t \in 1..MaxTasks :
        \/ NotifyStartReturns(t)
        \/ NotifyFailedReturns(t)
        \/ NotifyOkReturns(t)
        \/ SonarrReturns(t)
    \/ TransferSteps

\* reactions of the account on the album, whose members become tasks
NextLive == DeliverReaction({2}, {MyHeart}) \/ ReactionSteps \/ TaskSteps

\* one slot, notifications and Sonarr on.  The event loop runs every ready
\* task and every awaited call ends: task steps are weakly fair.  Nothing is
\* assumed of the stream or of the handlers
SpecLive ==
    /\ InitFrom({[FullCfg EXCEPT !.max_concurrent = 1]}, {AlbumWorld}, {NoFiles})
    /\ [][NextLive]_vars
    /\ WF_vars(TaskSteps)

\* C26: under fair scheduling and with calls that end, every task that waits
\* for a slot gets one and every task that was created terminates: from some
\* point on every task there is has returned (a run creates finitely many
\* tasks, and a task that has returned stays so)
C26_TasksTerminate ==
    <>[](\A t \in TaskIds : tasks[t].pc = "done")

\* the only slot is held by a transfer in flight while every other task of
\* the album waits for it
C26_Witness ==
    /\ Len(tasks) >= 2
    /\ \E u \in TaskIds :
          /\ InFlight(u)
          /\ \A t \in TaskIds \ {u} : tasks[t].pc = "acquire"

====
